---- MODULE Spec2Model ----
(***************************************************************************)
(* FlowManager (pipecat_flows/manager.py): the node/transition state       *)
(* machine, the function registry bookkeeping, the transition coordinator  *)
(* and the deferred post-action queue, together with the collaborator      *)
(* (LLM service, assistant context aggregator, pipeline task) as far as    *)
(* the manager reads or drives it.                                         *)
(***************************************************************************)
EXTENDS Integers, Sequences, FiniteSets, TLC

VARIABLES
    fm,                 \* the FlowManager object's fields
    llm_functions,      \* llm.register_function bindings: name -> function spec bound
    tools,              \* tool names of the last LLMSetToolsFrame queued on the task
    calls,              \* this turn's function calls: call id -> bound function spec
    handled,            \* call ids whose transition_func has run
    in_progress,        \* assistant aggregator: call ids still in progress
    results,            \* FunctionCallResultFrames not yet handled by the aggregator
    turn,               \* history of the current turn (stored/committed records)
    last                \* observation of the last operation (error, events)

vars == <<fm, llm_functions, tools, calls, handled, in_progress, results, turn, last>>

\* Most function calls the LLM issues in one turn.
MaxCalls == 2
\* Most out-of-band activations (set_node_from_config) while a turn is open.
MaxOutOfBand == 1

None == <<>>
Some(x) == <<x>>

(***************************************************************************)
(* Input data: function specs, action configs and node configs.            *)
(***************************************************************************)

\* handler: "none" (absent), "legacy" (returns a bare result), "consolidated"
\* (returns (result, next_node)), "raises".  next_node "" is None; inline
\* tells whether the returned next node is a NodeConfig instead of a name.
\* transition_callback names the node the callback passes to set_node.
FunctionSpec(name, handler, next_node, inline, transition_to, transition_callback) ==
    [name |-> name, handler |-> handler, next_node |-> next_node, inline |-> inline,
     transition_to |-> transition_to, transition_callback |-> transition_callback]

ActionConfig(type, handler) == [type |-> type, handler |-> handler]

NodeConfig(name, task_messages, functions, pre_actions, post_actions, respond_immediately) ==
    [name |-> name, task_messages |-> task_messages, functions |-> functions,
     pre_actions |-> pre_actions, post_actions |-> post_actions,
     respond_immediately |-> respond_immediately, context_strategy |-> ""]

\* A node config carrying its own context_strategy.
WithContextStrategy(config, strategy) == [config EXCEPT !.context_strategy = strategy]

\* Returns the next node B and also declares transition_to A.
F_go_b   == FunctionSpec("go_b", "consolidated", "B", FALSE, "A", "")
F_go_a   == FunctionSpec("go_a", "legacy", "", FALSE, "A", "")
F_info_a == FunctionSpec("info", "legacy", "", FALSE, "", "")
\* Returns the node config of A and also declares a transition callback,
\* which would set node B.
F_info_b == FunctionSpec("info", "consolidated", "A", TRUE, "", "B")
F_cb_a   == FunctionSpec("cb_a", "none", "", FALSE, "", "A")
\* Declares both transition_to and transition_callback, under a name that
\* node A declares too.
F_both   == FunctionSpec("go_a", "legacy", "", FALSE, "B", "A")
F_boom   == FunctionSpec("boom", "raises", "", FALSE, "A", "")

\* A direct function whose handler returns a bare value, not a tuple.
F_bare   == FunctionSpec("bare", "direct_bare", "", FALSE, "", "")

\* Handlers that raise when run.
RaisingHandlers == {"h_crash"}

Pool ==
    [n \in {"A", "B", "NoTask", "EmptyTask", "BadAct", "PreFail", "BadReg", "PostFail"} |->
        CASE n = "A" -> NodeConfig(n, "some", <<F_go_b, F_go_a, F_info_a, F_bare>>,
                            <<ActionConfig("tts_say", "")>>,
                            <<ActionConfig("end_conversation", "")>>, TRUE)
          [] n = "B" -> WithContextStrategy(
                            NodeConfig(n, "some", <<F_info_b, F_cb_a, F_boom>>,
                                <<>>, <<ActionConfig("tts_say", "")>>, FALSE),
                            "APPEND")
          [] n = "NoTask" -> NodeConfig(n, "absent", <<F_go_b>>,
                            <<ActionConfig("log", "h_log")>>,
                            <<ActionConfig("tts_say", "")>>, FALSE)
          [] n = "EmptyTask" -> WithContextStrategy(
                            NodeConfig(n, "empty", <<>>, <<>>, <<>>, TRUE), "RESET")
          [] n = "BadAct" -> NodeConfig(n, "some", <<F_go_b>>,
                            <<ActionConfig("tts_say", ""), ActionConfig("mystery", "")>>,
                            <<>>, TRUE)
          [] n = "PreFail" -> NodeConfig(n, "some", <<F_go_b>>,
                            <<ActionConfig("tts_say", ""), ActionConfig("crash", "")>>,
                            <<ActionConfig("tts_say", "")>>, TRUE)
          [] n = "BadReg" -> NodeConfig(n, "some", <<F_cb_a, F_both>>, <<>>, <<>>, TRUE)
          [] n = "PostFail" -> NodeConfig(n, "some", <<F_go_b>>, <<>>,
                            <<ActionConfig("crash", "")>>, TRUE)]

\* flow_config["nodes"] of a static flow.
StaticNodes == {"A", "B"}
\* flow_config["initial_node"] a static flow may declare.
StaticInitials == {"A"}
\* Node configs the application passes to set_node_from_config.
Configs == DOMAIN Pool
\* Node configs the application activates while function calls are in progress.
MidTurnConfigs == {"B"}
\* Initial nodes the application passes to initialize (NoNode: none).
InitialConfigs == {"", "A", "NoTask", "PostFail"}

\* What the collaborators do during one call.  "none" is the normal course:
\* the context holds messages, a summary asked for comes back in time,
\* nothing raises.  The deviations, at most one per call: queue_frames raises
\* at the context update or at the continue signal; the context holds no
\* messages; the summary comes back empty; the summary does not come back
\* within the timeout.  A call is taken with a deviation only if the call
\* comes to the point where the deviation takes place.
Faults == {"none", "context", "continue", "no_history", "summary_empty", "summary_timeout"}

\* ContextStrategy is "APPEND", "RESET" or "RESET_WITH_SUMMARY".  A per-node
\* RESET_WITH_SUMMARY is not in the pool: node configs carry APPEND, RESET or
\* nothing.
\* The static flow is constructed with RESET_WITH_SUMMARY, the dynamic one
\* with the default (APPEND).
EngineStrategy(static) == IF static THEN {"RESET_WITH_SUMMARY"} ELSE {"APPEND"}

BuiltinActions == {"tts_say", "end_conversation"}

\* ActionManager's handlers once the application is set up: the built-in ones,
\* and the handler the application registered for "crash" (register_action).
RegisteredActions ==
    [t \in BuiltinActions \cup {"crash"} |-> IF t = "crash" THEN "h_crash" ELSE "builtin"]

NoNode == ""

(***************************************************************************)
(* A run of one operation: the manager's fields and the collaborator's     *)
(* state as the operation has changed them so far, the exception raised    *)
(* (err, "" while none) with the step that raised it, and the events the   *)
(* collaborator has observed, in order.                                    *)
(***************************************************************************)
Run(f, l, t) ==
    [fm |-> f, llm_functions |-> l, tools |-> t, err |-> "", step |-> "",
     trace |-> <<>>, entered |-> 0, new_functions |-> {},
     check |-> "", committed |-> None, node |-> NoNode, possible |-> {}]

Raise(r, err, step) == [r EXCEPT !.err = err, !.step = step]

\* The call has come to a point where the collaborators may deviate in one of
\* these ways.
Opportunity(r, faults) == [r EXCEPT !.possible = @ \cup faults]

Emit(r, ev, arg) == [r EXCEPT !.trace = Append(@, [ev |-> ev, arg |-> arg])]

\* ActionManager._register_action: the first registration of a type wins.
register_action(r, action_type, handler) ==
    IF action_type \in DOMAIN r.fm.action_handlers THEN r
    ELSE [r EXCEPT !.fm.action_handlers = @ @@ (action_type :> handler)]

\* Faulty variant: an action type without handler is not looked at when the
\* node's action handlers are registered.
_register_action_from_config_Lenient(r, action) ==
    IF action.type # "" /\ action.type \notin DOMAIN r.fm.action_handlers
       /\ action.handler # ""
    THEN register_action(r, action.type, action.handler)
    ELSE r

_register_action_from_config(r, action) ==
    IF action.type # "" /\ action.type \notin DOMAIN r.fm.action_handlers
    THEN IF action.handler # ""
         THEN register_action(r, action.type, action.handler)
         ELSE IF action.type \notin BuiltinActions
              THEN Raise(r, "FlowError", "register_actions")
              ELSE r
    ELSE r

RECURSIVE RegisterActionHandlers(_, _)
RegisterActionHandlers(r, action_list) ==
    IF r.err # "" \/ action_list = <<>> THEN r
    ELSE RegisterActionHandlers(_register_action_from_config(r, Head(action_list)),
                                Tail(action_list))

\* ActionManager.execute_actions: strictly in order, each to completion; a
\* type without handler or a handler that raises fails the batch at once.
RECURSIVE execute_actions(_, _, _)
execute_actions(r, actions, ev) ==
    IF r.err # "" \/ actions = <<>> THEN r
    ELSE LET action == Head(actions) IN
         IF action.type \notin DOMAIN r.fm.action_handlers
            \/ r.fm.action_handlers[action.type] \in RaisingHandlers
         THEN Raise(r, "FlowError", ev)
         ELSE execute_actions(Emit(r, ev, action.type), Tail(actions), ev)

clear_deferred_post_actions(r) == [r EXCEPT !.fm.deferred_post_actions = None]

schedule_deferred_post_actions(r, node_id, post_actions) ==
    [r EXCEPT !.fm.deferred_post_actions = Some([node |-> node_id, actions |-> post_actions])]

\* Faulty variant: the presence of task_messages is not checked.
_validate_node_config_Skip(config) == TRUE

_validate_node_config(config) == config.task_messages # "absent"

\* _create_transition_func raises ValueError for a spec declaring both.
_create_transition_func(spec) ==
    ~(spec.transition_to # "" /\ spec.transition_callback # "")

\* Faulty variant: every declared function is registered with the LLM again.
_register_function_Always(r, spec) ==
    IF ~_create_transition_func(spec)
    THEN Raise(r, "FlowError", "register_function")
    ELSE [Emit(r, "register_function", spec.name) EXCEPT
            !.llm_functions = (spec.name :> spec) @@ @,
            !.new_functions = @ \cup {spec.name}]

\* Faulty variant: a registered name is added to current_functions at once.
_register_function_Partial(r, spec) ==
    IF spec.name \notin r.fm.current_functions
    THEN IF ~_create_transition_func(spec)
         THEN Raise(r, "FlowError", "register_function")
         ELSE [Emit(r, "register_function", spec.name) EXCEPT
                 !.llm_functions = (spec.name :> spec) @@ @,
                 !.new_functions = @ \cup {spec.name},
                 !.fm.current_functions = @ \cup {spec.name}]
    ELSE r

_register_function(r, spec) ==
    IF spec.name \notin r.fm.current_functions
    THEN IF ~_create_transition_func(spec)
         THEN Raise(r, "FlowError", "register_function")
         ELSE [Emit(r, "register_function", spec.name) EXCEPT
                 !.llm_functions = (spec.name :> spec) @@ @,
                 !.new_functions = @ \cup {spec.name}]
    ELSE r

RECURSIVE RegisterFunctions(_, _)
RegisterFunctions(r, functions_list) ==
    IF r.err # "" \/ functions_list = <<>> THEN r
    ELSE RegisterFunctions(_register_function(r, Head(functions_list)),
                           Tail(functions_list))

ToolNames(config) == {config.functions[i].name : i \in DOMAIN config.functions}

\* Faulty variant: the messages frame and the tools frame are queued by two
\* separate calls.
EmitFrames_Separate(r, node_id, frame_type, summary, tool_names) ==
    [r EXCEPT !.trace = @ \o
        <<[ev |-> "context_update", arg |-> node_id,
           frames |-> <<[frame |-> frame_type, node |-> node_id, summary |-> summary]>>],
          [ev |-> "context_update", arg |-> node_id,
           frames |-> <<[frame |-> "LLMSetToolsFrame", node |-> node_id,
                         tools |-> tool_names]>>]>>]

\* The one queue_frames call of _update_llm_context: the messages frame
\* followed by the tools frame.
EmitFrames(r, node_id, frame_type, summary, tool_names) ==
    [r EXCEPT !.trace = Append(@,
        [ev |-> "context_update", arg |-> node_id,
         frames |-> <<[frame |-> frame_type, node |-> node_id, summary |-> summary],
                      [frame |-> "LLMSetToolsFrame", node |-> node_id,
                       tools |-> tool_names]>>])]

\* strategy or self._context_strategy
update_config(r, config) ==
    IF config.context_strategy # "" THEN config.context_strategy
    ELSE r.fm._context_strategy

\* The summary is asked for under RESET_WITH_SUMMARY when the context holds
\* messages.
SummaryRequested(r, config, fault) ==
    update_config(r, config) = "RESET_WITH_SUMMARY" /\ fault # "no_history"

\* update_config.strategy = ContextStrategy.RESET, on the configuration object
\* in use (the engine-wide one: no node of the pool carries RESET_WITH_SUMMARY).
SummaryFallback(r, config, fault) ==
    IF SummaryRequested(r, config, fault) /\ fault \in {"summary_empty", "summary_timeout"}
    THEN [r EXCEPT !.fm._context_strategy = "RESET"]
    ELSE r

\* Faulty variant: the frame follows the strategy also when no node is current.
frame_type_StrategyOnly(r, config) ==
    IF update_config(r, config) \in {"RESET", "RESET_WITH_SUMMARY"}
    THEN "LLMMessagesUpdateFrame"
    ELSE "LLMMessagesAppendFrame"

frame_type(r, config) ==
    IF r.fm.current_node = NoNode
       \/ update_config(r, config) \in {"RESET", "RESET_WITH_SUMMARY"}
    THEN "LLMMessagesUpdateFrame"
    ELSE "LLMMessagesAppendFrame"

\* What asyncio.wait_for(self._create_conversation_summary(...), timeout=5.0)
\* gives: a summary, an empty one, or TimeoutError.
SummaryOutcome(fault) ==
    CASE fault = "summary_empty" -> "empty"
      [] fault = "summary_timeout" -> "timeout"
      [] OTHER -> "ok"

\* Faulty variant: a summary that is empty or late fails the context update.
_update_llm_context_SummaryFatal(r, node_id, config, fault) ==
    LET r0 == Emit(Opportunity(r, {"context"} \cup
                       (IF update_config(r, config) = "RESET_WITH_SUMMARY"
                        THEN {"no_history", "summary_empty", "summary_timeout"} ELSE {})),
                   "update_config", update_config(r, config))
        requested == SummaryRequested(r0, config, fault)
        r1 == IF requested THEN Emit(r0, "generate_summary", SummaryOutcome(fault)) ELSE r0
    IN  IF fault = "context" \/ (requested /\ SummaryOutcome(fault) # "ok")
        THEN Raise(r1, "FlowError", "context")
        ELSE [EmitFrames(r1, node_id, frame_type(r1, config), requested, ToolNames(config))
                EXCEPT !.tools = ToolNames(config)]

_update_llm_context(r, node_id, config, fault) ==
    LET r0 == Emit(Opportunity(r, {"context"} \cup
                       (IF update_config(r, config) = "RESET_WITH_SUMMARY"
                        THEN {"no_history", "summary_empty", "summary_timeout"} ELSE {})),
                   "update_config", update_config(r, config))
        requested == SummaryRequested(r0, config, fault)
        r1 == IF requested THEN Emit(r0, "generate_summary", SummaryOutcome(fault)) ELSE r0
        r2 == SummaryFallback(r1, config, fault)
    IN  IF fault = "context" THEN Raise(r2, "FlowError", "context")
        ELSE [EmitFrames(r2, node_id, frame_type(r2, config),
                         requested /\ SummaryOutcome(fault) = "ok", ToolNames(config))
                EXCEPT !.tools = ToolNames(config)]

(***************************************************************************)
(* The steps of _set_node inside its try block, in source order.  A step   *)
(* is skipped once an exception is propagating.                            *)
(***************************************************************************)
\* Faulty variant: the pending transition survives the start of an activation.
ClearPendingTransition_Skip(r) == r

ClearPendingTransition(r) ==
    IF r.err # "" THEN r ELSE [r EXCEPT !.fm._pending_transition = None]

ValidateStep(r, config) ==
    IF r.err # "" THEN r
    ELSE IF _validate_node_config(config) THEN r
         ELSE Raise(r, "FlowError", "validation")

\* Faulty variant: the previous node's deferred post-actions are kept.
ClearDeferredStep_Skip(r) == r

ClearDeferredStep(r) ==
    IF r.err # "" THEN r ELSE clear_deferred_post_actions(r)

RegisterActionsStep(r, config) ==
    RegisterActionHandlers(RegisterActionHandlers(r, config.pre_actions),
                           config.post_actions)

PreActionsStep(r, config) == execute_actions(r, config.pre_actions, "pre_action")

RegisterFunctionsStep(r, config) ==
    IF r.err # "" THEN r
    ELSE RegisterFunctions([r EXCEPT !.new_functions = {}], config.functions)

UpdateContextStep(r, node_id, config, fault) ==
    IF r.err # "" THEN r ELSE _update_llm_context(r, node_id, config, fault)

UpdateState(r, node_id) ==
    IF r.err # "" THEN r
    ELSE [Emit(r, "commit", node_id) EXCEPT
            !.fm.current_node = node_id,
            !.fm.current_functions = r.new_functions]

TriggerCompletion(r, node_id, config, fault) ==
    IF r.err # "" \/ ~config.respond_immediately THEN r
    ELSE IF fault = "continue"
         THEN Raise(Opportunity(r, {"continue"}), "FlowError", "continue")
         ELSE Emit(Opportunity(r, {"continue"}), "continue", node_id)

\* Faulty variant: post-actions are run at once and also stored as deferred.
PostActionsStep_RunAndDefer(r, node_id, config) ==
    IF r.err # "" \/ config.post_actions = <<>> THEN r
    ELSE schedule_deferred_post_actions(
             execute_actions(r, config.post_actions, "post_action"),
             node_id, config.post_actions)

PostActionsStep(r, node_id, config) ==
    IF r.err # "" \/ config.post_actions = <<>> THEN r
    ELSE IF config.respond_immediately
         THEN execute_actions(r, config.post_actions, "post_action")
         ELSE schedule_deferred_post_actions(r, node_id, config.post_actions)

\* Faulty variant: current_node and current_functions are committed before
\* the context is updated.
_set_node_CommitBeforeContext(r0, node_id, node_config, fault) ==
    LET r == [r0 EXCEPT !.entered = @ + 1, !.node = node_id] IN
    IF ~r.fm.initialized THEN Raise(r, "FlowTransitionError", "initialized")
    ELSE
      LET r1 == ClearPendingTransition(r)
          r2 == ValidateStep(r1, node_config)
          r3 == ClearDeferredStep(r2)
          r4 == RegisterActionsStep(r3, node_config)
          r5 == PreActionsStep(r4, node_config)
          r6 == RegisterFunctionsStep(r5, node_config)
          r7 == UpdateState(r6, node_id)
          r8 == UpdateContextStep(r7, node_id, node_config, fault)
          r9 == TriggerCompletion(r8, node_id, node_config, fault)
      IN  PostActionsStep(r9, node_id, node_config)

\* Faulty variant: the node's functions are registered before its pre-actions
\* run.
_set_node_RegisterBeforePreActions(r0, node_id, node_config, fault) ==
    LET r == [r0 EXCEPT !.entered = @ + 1, !.node = node_id] IN
    IF ~r.fm.initialized THEN Raise(r, "FlowTransitionError", "initialized")
    ELSE
      LET r1 == ClearPendingTransition(r)
          r2 == ValidateStep(r1, node_config)
          r3 == ClearDeferredStep(r2)
          r4 == RegisterActionsStep(r3, node_config)
          r5 == RegisterFunctionsStep(r4, node_config)
          r6 == PreActionsStep(r5, node_config)
          r7 == UpdateContextStep(r6, node_id, node_config, fault)
          r8 == UpdateState(r7, node_id)
          r9 == TriggerCompletion(r8, node_id, node_config, fault)
      IN  PostActionsStep(r9, node_id, node_config)

\* Faulty variant: the pending transition is cleared before the manager is
\* known to be initialized.
_set_node_ClearBeforeInitCheck(r0, node_id, node_config, fault) ==
    LET r == [r0 EXCEPT !.entered = @ + 1, !.node = node_id,
                        !.fm._pending_transition = None] IN
    IF ~r.fm.initialized THEN Raise(r, "FlowTransitionError", "initialized")
    ELSE
      LET r1 == ClearPendingTransition(r)
          r2 == ValidateStep(r1, node_config)
          r3 == ClearDeferredStep(r2)
          r4 == RegisterActionsStep(r3, node_config)
          r5 == PreActionsStep(r4, node_config)
          r6 == RegisterFunctionsStep(r5, node_config)
          r7 == UpdateContextStep(r6, node_id, node_config, fault)
          r8 == UpdateState(r7, node_id)
          r9 == TriggerCompletion(r8, node_id, node_config, fault)
      IN  PostActionsStep(r9, node_id, node_config)

\* Faulty variant: the configuration is validated only after the deferred
\* post-actions are cleared and the action handlers registered.
_set_node_ValidateLate(r0, node_id, node_config, fault) ==
    LET r == [r0 EXCEPT !.entered = @ + 1, !.node = node_id] IN
    IF ~r.fm.initialized THEN Raise(r, "FlowTransitionError", "initialized")
    ELSE
      LET r1 == ClearPendingTransition(r)
          r2 == ClearDeferredStep(r1)
          r3 == RegisterActionsStep(r2, node_config)
          r4 == ValidateStep(r3, node_config)
          r5 == PreActionsStep(r4, node_config)
          r6 == RegisterFunctionsStep(r5, node_config)
          r7 == UpdateContextStep(r6, node_id, node_config, fault)
          r8 == UpdateState(r7, node_id)
          r9 == TriggerCompletion(r8, node_id, node_config, fault)
      IN  PostActionsStep(r9, node_id, node_config)

_set_node(r0, node_id, node_config, fault) ==
    LET r == [r0 EXCEPT !.entered = @ + 1, !.node = node_id] IN
    IF ~r.fm.initialized THEN Raise(r, "FlowTransitionError", "initialized")
    ELSE
      LET r1 == ClearPendingTransition(r)
          r2 == ValidateStep(r1, node_config)
          r3 == ClearDeferredStep(r2)
          r4 == RegisterActionsStep(r3, node_config)
          r5 == PreActionsStep(r4, node_config)
          r6 == RegisterFunctionsStep(r5, node_config)
          r7 == UpdateContextStep(r6, node_id, node_config, fault)
          r8 == UpdateState(r7, node_id)
          r9 == TriggerCompletion(r8, node_id, node_config, fault)
      IN  PostActionsStep(r9, node_id, node_config)

(***************************************************************************)
(* Function invocation wrapper and transition coordinator.                 *)
(***************************************************************************)

\* Faulty variant: a handler that raises is taken to have returned no next node.
HandlerRaises_Never(spec) == FALSE

\* The handler's response: whether it raised, and the next node it returned.
HandlerRaises(spec) == spec.handler = "raises"

\* Faulty variant: a direct function's bare return value is accepted.
InvalidReturn_Never(spec) == FALSE

\* A direct function (FlowsDirectFunctionWrapper) whose handler returns a bare
\* value instead of a (result, next_node) tuple: InvalidFunctionError.
InvalidReturn(spec) == spec.handler = "direct_bare"

ReturnedNextNode(spec) ==
    IF spec.handler = "consolidated" THEN spec.next_node ELSE ""

is_edge_function(spec) ==
    ReturnedNextNode(spec) # "" \/ spec.transition_to # "" \/ spec.transition_callback # ""

transition_info(spec, call) ==
    [next_node |-> ReturnedNextNode(spec), inline |-> spec.inline,
     transition_to |-> spec.transition_to,
     transition_callback |-> spec.transition_callback,
     function_name |-> spec.name, arguments |-> call, stale |-> FALSE]

\* Faulty variant: a record already pending is kept, the new one is lost.
StorePendingTransition_KeepFirst(pending, info) ==
    IF pending = None THEN Some(info) ELSE pending

\* self._pending_transition = transition_info
StorePendingTransition(pending, info) == Some(info)

\* Faulty variant: an edge function's result lets the LLM run at once.
ResultFrame_RunLlm(spec, call) ==
    IF HandlerRaises(spec) \/ InvalidReturn(spec)
    THEN [call |-> call, status |-> "error", run_llm |-> "default",
          on_context_updated |-> FALSE]
    ELSE [call |-> call, status |-> "ok", run_llm |-> "true",
          on_context_updated |-> is_edge_function(spec)]

\* The properties passed to params.result_callback with the result.
ResultFrame(spec, call) ==
    IF HandlerRaises(spec) \/ InvalidReturn(spec)
    THEN [call |-> call, status |-> "error", run_llm |-> "default",
          on_context_updated |-> FALSE]
    ELSE IF is_edge_function(spec)
         THEN [call |-> call, status |-> "ok", run_llm |-> "false",
               on_context_updated |-> TRUE]
         ELSE [call |-> call, status |-> "ok", run_llm |-> "true",
               on_context_updated |-> FALSE]

\* Faulty variant: the calls in progress are not looked at.
AllFunctionsComplete_Always(calls_in_progress) == TRUE

\* not assistant_aggregator.has_function_calls_in_progress
AllFunctionsComplete(calls_in_progress) == calls_in_progress = {}

\* Faulty variant: transition_to is looked at before the returned next node.
_execute_transition_DeclaredFirst(r, info, fault) ==
    IF info.transition_to # ""
    THEN IF info.transition_to \in r.fm.nodes
         THEN _set_node(r, info.transition_to, Pool[info.transition_to], fault)
         ELSE Raise(r, "KeyError", "lookup")
    ELSE IF info.transition_callback # ""
         THEN _set_node(r, info.transition_callback,
                        Pool[info.transition_callback], fault)
         ELSE IF info.next_node # ""
              THEN IF info.inline \/ info.next_node \in r.fm.nodes
                   THEN _set_node(r, info.next_node, Pool[info.next_node], fault)
                   ELSE Raise(r, "KeyError", "lookup")
              ELSE r

_execute_transition(r, info, fault) ==
    IF info.next_node # ""
    THEN IF info.inline \/ info.next_node \in r.fm.nodes
         THEN _set_node(r, info.next_node, Pool[info.next_node], fault)
         ELSE Raise(r, "KeyError", "lookup")
    ELSE IF info.transition_to # ""
         THEN IF info.transition_to \in r.fm.nodes
              THEN _set_node(r, info.transition_to, Pool[info.transition_to], fault)
              ELSE Raise(r, "KeyError", "lookup")
         ELSE IF info.transition_callback # ""
              THEN _set_node(r, info.transition_callback,
                             Pool[info.transition_callback], fault)
              ELSE r

\* Faulty variant: an error of the commit is swallowed and the record put back.
_check_and_execute_transition_Retry(r, calls_in_progress, fault) ==
    IF r.fm._pending_transition = None THEN [r EXCEPT !.check = "no_pending"]
    ELSE IF AllFunctionsComplete(calls_in_progress)
         THEN LET info == r.fm._pending_transition[1]
                  done == _execute_transition(
                              [r EXCEPT !.fm._pending_transition = None,
                                        !.check = "committed", !.committed = Some(info)],
                              info, fault)
              IN  IF done.err # ""
                  THEN [done EXCEPT !.err = "", !.step = "",
                                    !.fm._pending_transition = Some(info)]
                  ELSE done
         ELSE [r EXCEPT !.check = "in_progress"]

_check_and_execute_transition(r, calls_in_progress, fault) ==
    IF r.fm._pending_transition = None THEN [r EXCEPT !.check = "no_pending"]
    ELSE IF AllFunctionsComplete(calls_in_progress)
         THEN LET info == r.fm._pending_transition[1] IN
              _execute_transition(
                  [r EXCEPT !.fm._pending_transition = None,
                            !.check = "committed", !.committed = Some(info)],
                  info, fault)
         ELSE [r EXCEPT !.check = "in_progress"]

(***************************************************************************)
(* State machine.                                                          *)
(***************************************************************************)
\* What the last operation showed: its outcome, and (history) whether a
\* transition was pending and which node's deferred batch was stored before it.
Observe(op, r) ==
    [op |-> op, node |-> r.node, err |-> r.err, step |-> r.step, trace |-> r.trace,
     entered |-> r.entered, check |-> r.check, committed |-> r.committed,
     had_pending |-> fm._pending_transition # None,
     had_deferred |-> IF fm.deferred_post_actions = None THEN NoNode
                      ELSE fm.deferred_post_actions[1].node]

\* Nothing to observe: a step of the collaborator alone.
Quiet ==
    [op |-> "none", node |-> NoNode, err |-> "", step |-> "", trace |-> <<>>,
     entered |-> 0, check |-> "", committed |-> None,
     had_pending |-> FALSE, had_deferred |-> NoNode]

NoTurn == [n |-> 0, stored |-> <<>>, commits |-> <<>>, entered |-> 0, oob |-> 0]

Init ==
    /\ \E static \in BOOLEAN :
         \E initial \in (IF static THEN StaticInitials ELSE {NoNode}) :
         \E strategy \in EngineStrategy(static) :
           fm = [initialized |-> FALSE,
                 _context_strategy |-> strategy,
                 nodes |-> IF static THEN StaticNodes ELSE {},
                 initial_node |-> initial,
                 current_node |-> NoNode,
                 current_functions |-> {},
                 _pending_transition |-> None,
                 action_handlers |-> RegisteredActions,
                 deferred_post_actions |-> None]
    /\ llm_functions = <<>>
    /\ tools = {}
    /\ calls = <<>>
    /\ handled = {}
    /\ in_progress = {}
    /\ results = <<>>
    /\ turn = NoTurn
    /\ last = Quiet

\* History: a record still pending after an activation began on an initialized
\* engine was pending before it; it is marked stale.
MarkStale(r) ==
    IF r.entered > 0 /\ r.step # "initialized" /\ r.fm._pending_transition # None
    THEN [r.fm EXCEPT !._pending_transition[1].stale = TRUE]
    ELSE r.fm

Apply(r) ==
    /\ fm' = MarkStale(r)
    /\ llm_functions' = r.llm_functions
    /\ tools' = r.tools

TurnOpen == in_progress # {}

\* The turn's history is kept until the first operation after the turn.
AfterTurn == IF TurnOpen THEN turn ELSE NoTurn

\* The run of _set_node a call of set_node_from_config makes.
SetNodeRun(node_id, fault) ==
    _set_node(Run(fm, llm_functions, tools), node_id, Pool[node_id], fault)

\* The run of initialize on a manager that is not initialized.
InitializeRun(initial_node, fault) ==
    LET r0 == Run(fm, llm_functions, tools)
        r1 == [r0 EXCEPT !.fm.initialized = TRUE]
        node_name == IF fm.initial_node # NoNode THEN fm.initial_node
                     ELSE initial_node
        r2 == IF fm.initial_node # NoNode /\ fm.initial_node \notin fm.nodes
              THEN Raise(r1, "KeyError", "lookup")
              ELSE IF node_name # NoNode
                   THEN _set_node(r1, node_name, Pool[node_name], fault)
                   ELSE r1
    IN  IF r2.err # ""
        THEN [r2 EXCEPT !.fm.initialized = FALSE, !.err = "FlowInitializationError"]
        ELSE r2

\* The run of _check_and_execute_transition when the aggregator has handled
\* the first waiting result.
CheckRun(fault) ==
    _check_and_execute_transition(Run(fm, llm_functions, tools),
                                  in_progress \ {Head(results).call}, fault)

\* The ways the collaborators can deviate during a call, given its normal run.
Deviations(r) == Faults \cap ({"none"} \cup r.possible)

\* Faulty variant: a repeated initialize activates the initial node again.
Initialize_Again(initial_node, fault) ==
    LET r0 == Run(fm, llm_functions, tools)
        r1 == [r0 EXCEPT !.fm.initialized = TRUE]
        node_name == IF fm.initial_node # NoNode THEN fm.initial_node
                     ELSE initial_node
        r2 == IF fm.initial_node # NoNode /\ fm.initial_node \notin fm.nodes
              THEN Raise(r1, "KeyError", "lookup")
              ELSE IF node_name # NoNode
                   THEN _set_node(r1, node_name, Pool[node_name], fault)
                   ELSE r1
        r3 == IF r2.err # ""
              THEN [r2 EXCEPT !.fm.initialized = FALSE,
                              !.err = "FlowInitializationError"]
              ELSE r2
    IN /\ ~TurnOpen
       /\ fault # "none" => fault \in r3.possible
       /\ Apply(r3)
       /\ last' = Observe("initialize", r3)
       /\ turn' = AfterTurn
       /\ UNCHANGED <<calls, handled, in_progress, results>>

\* Faulty variant: a failed initialize leaves the manager marked initialized.
Initialize_NoRollback(initial_node, fault) ==
    LET r0 == Run(fm, llm_functions, tools) IN
    /\ ~TurnOpen
    /\ IF fm.initialized
       THEN /\ fault = "none"
            /\ last' = Observe("initialize", r0)
            /\ turn' = AfterTurn
            /\ UNCHANGED <<fm, llm_functions, tools, calls, handled, in_progress, results>>
       ELSE LET r1 == [r0 EXCEPT !.fm.initialized = TRUE]
                node_name == IF fm.initial_node # NoNode THEN fm.initial_node
                             ELSE initial_node
                r2 == IF fm.initial_node # NoNode /\ fm.initial_node \notin fm.nodes
                      THEN Raise(r1, "KeyError", "lookup")
                      ELSE IF node_name # NoNode
                           THEN _set_node(r1, node_name, Pool[node_name], fault)
                           ELSE r1
                r3 == IF r2.err # ""
                      THEN [r2 EXCEPT !.err = "FlowInitializationError"]
                      ELSE r2
            IN /\ fault # "none" => fault \in r3.possible
               /\ Apply(r3)
               /\ last' = Observe("initialize", r3)
               /\ turn' = AfterTurn
               /\ UNCHANGED <<calls, handled, in_progress, results>>

\* initialize(initial_node)
Initialize(initial_node, fault) ==
    LET r0 == Run(fm, llm_functions, tools) IN
    /\ ~TurnOpen
    /\ IF fm.initialized
       THEN /\ fault = "none"
            /\ last' = Observe("initialize", r0)
            /\ turn' = AfterTurn
            /\ UNCHANGED <<fm, llm_functions, tools, calls, handled, in_progress, results>>
       ELSE LET r3 == InitializeRun(initial_node, fault)
            IN /\ fault # "none" => fault \in r3.possible
               /\ Apply(r3)
               /\ last' = Observe("initialize", r3)
               /\ turn' = AfterTurn
               /\ UNCHANGED <<calls, handled, in_progress, results>>

\* set_node_from_config(node_config); set_node(node_id, node_config) is the
\* same call of _set_node with the caller's node id
SetNodeFromConfig(node_id, fault) ==
    LET r == SetNodeRun(node_id, fault) IN
    /\ TurnOpen => turn.oob < MaxOutOfBand
    /\ fault # "none" => fault \in r.possible
    /\ Apply(r)
    /\ last' = Observe("set_node", r)
    /\ turn' = IF TurnOpen THEN [turn EXCEPT !.oob = @ + 1] ELSE NoTurn
    /\ UNCHANGED <<calls, handled, in_progress, results>>

\* The LLM issues the function calls of one turn; every call is in progress
\* from the start, bound to the wrapper registered for its name.
StartTurn(names) ==
    /\ ~TurnOpen
    /\ results = <<>>
    /\ \A i \in DOMAIN names : names[i] \in tools /\ names[i] \in DOMAIN llm_functions
    /\ calls' = [i \in DOMAIN names |-> llm_functions[names[i]]]
    /\ handled' = {}
    /\ in_progress' = DOMAIN names
    /\ turn' = [NoTurn EXCEPT !.n = Len(names)]
    /\ last' = Quiet
    /\ UNCHANGED <<fm, llm_functions, tools, results>>

\* transition_func(params) of one call, up to and including result_callback
TransitionFunc(call) ==
    LET spec == calls[call]
        stores == ~HandlerRaises(spec) /\ ~InvalidReturn(spec) /\ is_edge_function(spec)
        info == transition_info(spec, call)
    IN
    /\ call \in in_progress \ handled
    /\ handled' = handled \cup {call}
    /\ fm' = IF stores
             THEN [fm EXCEPT !._pending_transition = StorePendingTransition(@, info)]
             ELSE fm
    /\ results' = Append(results, ResultFrame(spec, call))
    /\ turn' = IF stores THEN [turn EXCEPT !.stored = Append(@, call)] ELSE turn
    /\ last' = Quiet
    /\ UNCHANGED <<llm_functions, tools, calls, in_progress>>

\* The assistant aggregator handles a result whose properties carry no
\* on_context_updated callback.
ResultWithoutCallback ==
    /\ results # <<>>
    /\ ~Head(results).on_context_updated
    /\ in_progress' = in_progress \ {Head(results).call}
    /\ results' = Tail(results)
    /\ last' = Quiet
    /\ UNCHANGED <<fm, llm_functions, tools, calls, handled, turn>>

\* The assistant aggregator handles an edge function's result and then calls
\* on_context_updated, which is _check_and_execute_transition.
ResultWithCallback(fault) ==
    /\ results # <<>>
    /\ Head(results).on_context_updated
    /\ in_progress' = in_progress \ {Head(results).call}
    /\ results' = Tail(results)
    /\ LET r == CheckRun(fault)
       IN /\ fault # "none" => fault \in r.possible
          /\ Apply(r)
          /\ last' = Observe("on_context_updated", r)
          /\ turn' = [turn EXCEPT
                        !.commits = IF r.committed # None
                                    THEN Append(@, r.committed[1].arguments) ELSE @,
                        !.entered = @ + r.entered]
    /\ UNCHANGED <<calls, handled>>

\* The collaborator's "response produced" signal: run the deferred batch once.
ResponseProduced ==
    LET r0 == Run(fm, llm_functions, tools) IN
    /\ fm.initialized
    /\ ~TurnOpen
    /\ LET r == IF fm.deferred_post_actions = None THEN r0
                ELSE LET batch == fm.deferred_post_actions[1] IN
                     execute_actions(
                         Emit(clear_deferred_post_actions(r0), "deferred_batch", batch.node),
                         batch.actions, "post_action")
       IN /\ Apply(r)
          /\ last' = Observe("response_produced", r)
    /\ turn' = AfterTurn
    /\ UNCHANGED <<calls, handled, in_progress, results>>

CallNames == UNION {ToolNames(Pool[n]) : n \in DOMAIN Pool}

\* Strings in a fixed order, to name the calls of a turn once per set of
\* names; a turn calls a name at most once.
Rank(name) ==
    CASE name = "go_b" -> 1 [] name = "go_a" -> 2 [] name = "info" -> 3
      [] name = "cb_a" -> 4 [] name = "boom" -> 5 [] name = "bare" -> 6
      [] OTHER -> 7

CallSeqs ==
    {s \in UNION {[1..k -> CallNames] : k \in 1..MaxCalls} :
        \A i \in 1..(Len(s) - 1) : Rank(s[i]) < Rank(s[i + 1])}

Next ==
    \/ /\ ~TurnOpen
       /\ \E n \in InitialConfigs :
             \E f \in (IF fm.initialized THEN {"none"}
                       ELSE Deviations(InitializeRun(n, "none"))) : Initialize(n, f)
    \/ /\ TurnOpen => turn.oob < MaxOutOfBand
       /\ \E n \in (IF TurnOpen THEN MidTurnConfigs ELSE Configs) :
             \E f \in Deviations(SetNodeRun(n, "none")) : SetNodeFromConfig(n, f)
    \/ \E names \in CallSeqs : StartTurn(names)
    \/ \E c \in in_progress : TransitionFunc(c)
    \/ ResultWithoutCallback
    \/ \E f \in (IF results = <<>> THEN {"none"} ELSE Deviations(CheckRun("none"))) :
          ResultWithCallback(f)
    \/ ResponseProduced

Spec == Init /\ [][Next]_vars

(***************************************************************************)
(* Properties.                                                             *)
(***************************************************************************)

\* The last operation entered _set_node on an initialized manager.
Activation == last.entered > 0 /\ last.step # "initialized"

EventsOf(trace, ev) == {i \in DOMAIN trace : trace[i].ev = ev}

\* All calls of the turn have been handled and their results processed.
TurnSettled == turn.n > 0 /\ in_progress = {} /\ results = <<>>

\* The node a transition record names, by the mechanism it carries.
TargetOf(info) ==
    IF info.next_node # "" THEN info.next_node
    ELSE IF info.transition_to # "" THEN info.transition_to
         ELSE info.transition_callback

\* C1: Barrier safety.  When on_context_updated calls
\* _check_and_execute_transition while the aggregator still has function calls
\* in progress, no record is committed and no activation is started: the call
\* changes nothing, so a pending record stays pending.
C1_BarrierSafety ==
    [][(last'.op = "on_context_updated" /\ in_progress' # {})
         => /\ last'.committed = None
            /\ last'.entered = 0
            /\ fm' = fm
            /\ llm_functions' = llm_functions
            /\ tools' = tools]_vars

\* A check found a record pending and calls still in progress, and left the
\* record pending.
C1_Witness ==
    /\ last.op = "on_context_updated"
    /\ last.check = "in_progress"
    /\ in_progress # {}
    /\ fm._pending_transition # None

\* The turn consisted of at least two calls, every one of them an edge function
\* that completed and stored a record, and no out-of-band activation intervened.
EdgeTurnSettled ==
    /\ TurnSettled
    /\ turn.n >= 2
    /\ Len(turn.stored) = turn.n
    /\ turn.oob = 0

\* C2: Two (or more) concurrent edge-function completions in one turn, in any
\* completion order: once the turn has settled exactly one record has been
\* committed, it is the record stored last, _set_node has been entered at most
\* once (exactly once unless the record's node name is not in the graph), and
\* when that activation succeeded the manager shows exactly one node change,
\* to the node the last record names.
C2_OneCommitLastWins ==
    EdgeTurnSettled =>
        /\ last.op = "on_context_updated"
        /\ last.committed # None
        /\ turn.commits = <<turn.stored[Len(turn.stored)]>>
        /\ last.committed[1].arguments = turn.stored[Len(turn.stored)]
        /\ turn.entered <= 1
        /\ (last.err # "KeyError" => turn.entered = 1 /\ last.node = TargetOf(last.committed[1]))
        /\ (last.err = ""
              => /\ Cardinality(EventsOf(last.trace, "commit")) = 1
                 /\ fm.current_node = TargetOf(last.committed[1]))

\* go_b (to B) and go_a (to A) were called in one turn from node A; go_a's
\* record was stored first, go_b's last; B is the current node.
C2_Witness ==
    /\ EdgeTurnSettled
    /\ last.err = ""
    /\ Len(calls) = 2
    /\ calls[1].name = "go_b"
    /\ calls[2].name = "go_a"
    /\ turn.stored = <<2, 1>>
    /\ fm.current_node = "B"

\* C3: Transition liveness, as claimed: when a turn in which an edge function
\* stored a record has settled (no call in progress, no result outstanding, no
\* out-of-band activation), the record has been committed and is no longer
\* pending.
C3_TransitionCommittedOnSettle ==
    (TurnSettled /\ turn.stored # <<>> /\ turn.oob = 0)
        => (fm._pending_transition = None /\ turn.commits # <<>>)

\* C4: As claimed: after a successful activation current_functions is exactly
\* the set of function names the activated node declares.
C4_FunctionsMirrorNode ==
    (Activation /\ last.err = "")
        => fm.current_functions = ToolNames(Pool[fm.current_node])

\* C5: As claimed: whenever _set_node raises, at whichever step, current_node
\* and current_functions are what they were before the call.
C5_NoPartialStateOnFailure ==
    [][(last'.entered > 0 /\ last'.err # "")
         => /\ fm'.current_node = fm.current_node
            /\ fm'.current_functions = fm.current_functions]_vars

\* C6: When the registration of a declared function fails, current_functions
\* and current_node are what they were before the activation: no name
\* registered earlier in that activation has been added.
C6_RegistrationFailureAtomic ==
    [][(last'.entered > 0 /\ last'.step = "register_function")
         => /\ fm'.current_functions = fm.current_functions
            /\ fm'.current_node = fm.current_node]_vars

\* The second declared function failed to register after the first had been
\* registered with the LLM; the first one's name is not in current_functions.
C6_Witness ==
    /\ last.entered > 0
    /\ last.step = "register_function"
    /\ \E i \in EventsOf(last.trace, "register_function") :
          last.trace[i].arg \notin fm.current_functions

\* C7 as claimed: activating (on an initialized manager) a node whose
\* task_messages is absent or holds zero messages fails at validation and
\* leaves current_node unchanged.
C7_EmptyTaskMessagesRejected ==
    [][(last'.entered > 0 /\ last'.step # "initialized"
          /\ Pool[last'.node].task_messages \in {"absent", "empty"})
         => /\ last'.err # ""
            /\ last'.step = "validation"
            /\ fm'.current_node = fm.current_node]_vars

\* C7 (amended): activating a node whose task_messages field is absent fails
\* and leaves current_node unchanged; on an initialized manager the failure is
\* the validation error.
C7_AbsentTaskMessagesRejected ==
    [][(last'.entered > 0 /\ Pool[last'.node].task_messages = "absent")
         => /\ last'.err # ""
            /\ (last'.step # "initialized" => last'.step = "validation")
            /\ fm'.current_node = fm.current_node]_vars

\* A node without task_messages was rejected at validation while another node
\* was current.
C7_Witness ==
    /\ last.node = "NoTask"
    /\ last.step = "validation"
    /\ last.err = "FlowError"
    /\ fm.current_node = "A"

\* C8 as claimed: an activation that fails at validation leaves every part of
\* the manager as it was, the pending transition included, and nothing has
\* been run, registered or queued.
C8_ValidationFailureMutatesNothing ==
    [][last'.step = "validation"
         => /\ fm' = fm
            /\ llm_functions' = llm_functions
            /\ tools' = tools
            /\ last'.trace = <<>>]_vars

\* C8 (amended): an activation that fails at validation leaves current_node,
\* current_functions, the deferred post-actions and the action handlers as they
\* were, and no pre-action, function registration or context update has
\* happened; the pending transition, however, has been cleared.
C8_ValidationFailureClearsOnlyPending ==
    [][last'.step = "validation"
         => /\ fm' = [fm EXCEPT !._pending_transition = None]
            /\ llm_functions' = llm_functions
            /\ tools' = tools
            /\ last'.trace = <<>>]_vars

\* An activation failed at validation while a transition was pending and B's
\* deferred post-actions were stored.
C8_Witness ==
    /\ last.step = "validation"
    /\ last.had_pending
    /\ last.had_deferred = "B"
    /\ fm._pending_transition = None
    /\ fm.deferred_post_actions # None

\* C9: When an activation has begun on an initialized manager no transition is
\* pending afterwards, whether the activation succeeded or failed, and a
\* record that was pending when an activation began is never committed.
C9_PendingClearedOnActivation ==
    /\ Activation => fm._pending_transition = None
    /\ last.committed # None => ~last.committed[1].stale

\* A turn settled after an out-of-band activation had dropped the record its
\* edge function stored: the check found nothing pending, nothing was committed.
C9_Witness ==
    /\ TurnSettled
    /\ turn.oob > 0
    /\ turn.stored # <<>>
    /\ turn.commits = <<>>
    /\ last.op = "on_context_updated"
    /\ last.check = "no_pending"

\* C10: A deferred batch belongs to the current node: the stored batch is the
\* current node's, and a batch run on the response-produced signal is the
\* current node's, never that of a node active before.
C10_DeferredBatchOfCurrentNode ==
    /\ fm.deferred_post_actions # None
         => fm.deferred_post_actions[1].node = fm.current_node
    /\ last.op = "response_produced"
         => \A i \in EventsOf(last.trace, "deferred_batch") :
               last.trace[i].arg = fm.current_node

\* A was activated while B's deferred post-actions had not yet run; nothing is
\* left to run.
C10_Witness ==
    /\ Activation
    /\ last.err = ""
    /\ last.had_deferred = "B"
    /\ fm.current_node = "A"
    /\ fm.deferred_post_actions = None

\* C11: set_node / set_node_from_config on a manager that is not initialized
\* raises FlowTransitionError, which no failed activation of an initialized
\* manager raises (that is FlowError), and changes nothing: the manager's
\* fields (pending transition and deferred post-actions included), the LLM's
\* registrations and the tools are as before, and nothing was run or queued.
C11_NotInitializedRejected ==
    [][(last'.op = "set_node")
         => /\ ~fm.initialized
                 => /\ last'.err = "FlowTransitionError"
                    /\ fm' = fm
                    /\ llm_functions' = llm_functions
                    /\ tools' = tools
                    /\ last'.trace = <<>>
            /\ fm.initialized => last'.err \in {"", "FlowError"}]_vars

\* set_node_from_config was rejected on an uninitialized manager (an earlier
\* initialize had failed) while a transition was pending; it is still pending.
C11_Witness ==
    /\ last.op = "set_node"
    /\ last.err = "FlowTransitionError"
    /\ ~fm.initialized
    /\ last.had_pending
    /\ fm._pending_transition # None

\* C12: initialize on a manager that is already initialized is a no-op,
\* whatever initial node is passed: it raises nothing, does not enter
\* _set_node, runs, registers and queues nothing, and leaves the manager's
\* fields (current_node, current_functions, the pending transition, the
\* deferred post-actions) as they were.
C12_InitializeIdempotent ==
    [][(last'.op = "initialize" /\ fm.initialized)
         => /\ last'.err = ""
            /\ last'.entered = 0
            /\ last'.trace = <<>>
            /\ fm' = fm
            /\ llm_functions' = llm_functions
            /\ tools' = tools]_vars

\* initialize was called again while B was current and B's deferred
\* post-actions were stored; they still are.
C12_Witness ==
    /\ last.op = "initialize"
    /\ last.entered = 0
    /\ last.err = ""
    /\ fm.initialized
    /\ fm.current_node = "B"
    /\ last.had_deferred = "B"
    /\ fm.deferred_post_actions # None

\* C13: When activating the initial node raises during initialize, the
\* manager is left not initialized and the error is FlowInitializationError;
\* while the manager is not initialized set_node is rejected as not
\* initialized; and the initialize call after a failed one is not treated as a
\* no-op: it enters _set_node again or, with no initial node, marks the
\* manager initialized.
C13_InitializeRollback ==
    [][/\ (last'.op = "initialize" /\ ~fm.initialized /\ last'.step # "")
            => /\ ~fm'.initialized
               /\ last'.err = "FlowInitializationError"
       /\ (last'.op = "initialize" /\ ~fm.initialized /\ last'.step = "")
            => /\ fm'.initialized
               /\ last'.err = ""
       /\ (last'.op = "set_node" /\ last.op = "initialize" /\ last.err # "")
            => /\ last'.err = "FlowTransitionError"
               /\ ~fm'.initialized
       /\ (last'.op = "initialize" /\ last.op = "initialize" /\ last.err # "")
            => (last'.entered = 1 \/ fm'.initialized)]_vars

\* initialize failed while activating the initial node (at a step after the
\* node had been validated) and the manager is not initialized.
C13_Witness ==
    /\ last.op = "initialize"
    /\ last.err = "FlowInitializationError"
    /\ last.entered = 1
    /\ last.step \in {"context", "continue", "post_action"}
    /\ ~fm.initialized

\* C14: When transition_func completes for a call whose handler did not raise
\* and, for a direct function, returned a (result, next_node) tuple:
\* a node function (no next node returned, no transition_to, no
\* transition_callback) delivers its result with run_llm = true and without
\* on_context_updated, and leaves the pending transition as it was; an edge
\* function delivers its result with run_llm = false and with
\* on_context_updated, and its record is the pending transition when the
\* result is delivered.  Every result waiting with on_context_updated belongs
\* to a call that has stored a record.
C14_NodeAndEdgeResults ==
    [][/\ \A c \in handled' \ handled :
            LET spec == calls[c]
                frame == results'[Len(results')]
                returned == spec.handler = "consolidated" /\ spec.next_node # ""
                edge == returned \/ spec.transition_to # "" \/ spec.transition_callback # ""
            IN  (turn'.n = turn.n /\ spec.handler \notin {"raises", "direct_bare"}) =>
                  /\ frame.call = c
                  /\ frame.status = "ok"
                  /\ ~edge => /\ frame.run_llm = "true"
                              /\ ~frame.on_context_updated
                              /\ fm'._pending_transition = fm._pending_transition
                              /\ turn'.stored = turn.stored
                  /\ edge => /\ frame.run_llm = "false"
                             /\ frame.on_context_updated
                             /\ fm'._pending_transition # None
                             /\ fm'._pending_transition[1].arguments = c
                             /\ fm'._pending_transition[1].function_name = spec.name
                             /\ turn'.stored = Append(turn.stored, c)
       /\ \A i \in DOMAIN results' :
            results'[i].on_context_updated
               => \E j \in DOMAIN turn'.stored : turn'.stored[j] = results'[i].call]_vars

\* A node function's result (run_llm = true, no callback) and an edge
\* function's result (run_llm = false, callback) are both waiting, and the
\* edge function's record is pending.
C14_Witness ==
    /\ Len(results) = 2
    /\ results[1].run_llm = "true" /\ ~results[1].on_context_updated
    /\ results[2].run_llm = "false" /\ results[2].on_context_updated
    /\ fm._pending_transition # None
    /\ fm._pending_transition[1].arguments = results[2].call

\* C15: When the handler of a called function raises, transition_func does
\* not raise: it delivers exactly one result for the call, with error status
\* and no on_context_updated callback, and the pending transition is what it
\* was before the invocation, whether empty or holding the record of another
\* call of the turn.
C15_HandlerErrorContained ==
    [][\A c \in handled' \ handled :
          calls[c].handler = "raises"
             => /\ Len(results') = Len(results) + 1
                /\ results'[Len(results')].call = c
                /\ results'[Len(results')].status = "error"
                /\ ~results'[Len(results')].on_context_updated
                /\ \A i \in DOMAIN results : results[i].call # c
                /\ fm' = fm
                /\ turn'.stored = turn.stored]_vars

\* The handler of one call raised while the record of another call of the
\* same turn was pending; that record is still pending.
C15_Witness ==
    /\ results # <<>>
    /\ results[Len(results)].status = "error"
    /\ fm._pending_transition # None
    /\ fm._pending_transition[1].arguments # results[Len(results)].call
    /\ fm._pending_transition[1].arguments \in in_progress

\* C16: During an activation llm.register_function is called only for names
\* the node declares that are not in current_functions when the activation
\* starts, each at most once; when the activation gets past the registration
\* of functions it has been called for every such name.  Names kept from the
\* preceding node are not registered again.
C16_NoReRegistration ==
    [][(last'.entered > 0 /\ last'.step # "initialized")
         => LET regs == EventsOf(last'.trace, "register_function")
                names == {last'.trace[i].arg : i \in regs}
                fresh == ToolNames(Pool[last'.node]) \ fm.current_functions
            IN  /\ names \subseteq fresh
                /\ Cardinality(regs) = Cardinality(names)
                /\ (EventsOf(last'.trace, "context_update") # {}) => names = fresh]_vars

\* B was activated while A, which also declares "info", was current: cb_a and
\* boom were registered with the LLM, info was not.
C16_Witness ==
    /\ Activation
    /\ last.err = ""
    /\ last.node = "B"
    /\ {last.trace[i].arg : i \in EventsOf(last.trace, "register_function")} = {"cb_a", "boom"}
    /\ "info" \in ToolNames(Pool["B"])

\* C17: When the summary asked for under RESET_WITH_SUMMARY (the context
\* holds messages) comes back empty or not within the timeout, the activation
\* does not fail at the context update: the batch is queued with
\* LLMMessagesUpdateFrame (a reset) carrying the node's messages without a
\* summary message, current_node is committed to the new node, and the
\* activation raises nothing unless a later step of its own (a post-action)
\* fails.
C17_SummaryFallbackNotFatal ==
    [][\A i \in EventsOf(last'.trace, "generate_summary") :
          last'.trace[i].arg \in {"empty", "timeout"}
             => /\ last'.step \notin {"context", "continue"}
                /\ last'.err # "" => last'.step = "post_action"
                /\ \E j \in EventsOf(last'.trace, "context_update") :
                      /\ j > i
                      /\ last'.trace[j].frames[1].frame = "LLMMessagesUpdateFrame"
                      /\ ~last'.trace[j].frames[1].summary
                      /\ last'.trace[j].frames[1].node = last'.node
                /\ Cardinality(EventsOf(last'.trace, "context_update")) = 1
                /\ EventsOf(last'.trace, "commit") # {}
                /\ fm'.current_node = last'.node]_vars

\* A was activated under RESET_WITH_SUMMARY and the summary timed out; A is
\* the current node, activated without error, its messages sent as a reset
\* without summary.
C17_Witness ==
    /\ Activation
    /\ last.err = ""
    /\ last.node = "A"
    /\ fm.current_node = "A"
    /\ \E i \in EventsOf(last.trace, "generate_summary") : last.trace[i].arg = "timeout"
    /\ \E j \in EventsOf(last.trace, "context_update") :
          /\ last.trace[j].frames[1].frame = "LLMMessagesUpdateFrame"
          /\ ~last.trace[j].frames[1].summary

\* C18: The messages frame of a context update is LLMMessagesUpdateFrame (a
\* full reset) whenever current_node is None when the update is computed,
\* whatever the strategy in effect, APPEND included; when a node is current it
\* is LLMMessagesAppendFrame exactly when the strategy in effect (the node's
\* own, else the manager's) is APPEND.
C18_FirstActivationResets ==
    [][\A j \in EventsOf(last'.trace, "context_update") :
          LET config == Pool[last'.trace[j].arg]
              effective == IF config.context_strategy # "" THEN config.context_strategy
                           ELSE fm._context_strategy
              frame == last'.trace[j].frames[1].frame
          IN  /\ frame \in {"LLMMessagesUpdateFrame", "LLMMessagesAppendFrame"}
              /\ fm.current_node = NoNode => frame = "LLMMessagesUpdateFrame"
              /\ fm.current_node # NoNode
                   => (frame = "LLMMessagesAppendFrame" <=> effective = "APPEND")]_vars

\* initialize activated A as the first node of a manager whose strategy is
\* APPEND, and A's messages were sent as a reset.
C18_Witness ==
    /\ last.op = "initialize"
    /\ last.err = ""
    /\ last.node = "A"
    /\ fm._context_strategy = "APPEND"
    /\ Pool["A"].context_strategy = ""
    /\ \E j \in EventsOf(last.trace, "context_update") :
          last.trace[j].frames[1].frame = "LLMMessagesUpdateFrame"

\* C19: An activation queues the context update as one batch, at most once:
\* the messages frame first and the LLMSetToolsFrame second, both of the node
\* being activated, the tools being those the node declares.  An activation
\* that commits the node has queued exactly one such batch, before the commit.
C19_MessagesAndToolsOneBatch ==
    [][last'.entered > 0
         => LET ups == EventsOf(last'.trace, "context_update") IN
            /\ Cardinality(ups) <= 1
            /\ \A j \in ups :
                  LET frames == last'.trace[j].frames IN
                  /\ Len(frames) = 2
                  /\ frames[1].frame \in {"LLMMessagesUpdateFrame", "LLMMessagesAppendFrame"}
                  /\ frames[2].frame = "LLMSetToolsFrame"
                  /\ frames[1].node = last'.node
                  /\ frames[2].node = last'.node
                  /\ frames[2].tools = ToolNames(Pool[last'.node])
                  /\ tools' = frames[2].tools
            /\ \A k \in EventsOf(last'.trace, "commit") : \E j \in ups : j < k
            /\ ups = {} => tools' = tools]_vars

\* B was activated after A: one batch was queued, B's messages appended and
\* B's tools set.
C19_Witness ==
    /\ Activation
    /\ last.err = ""
    /\ last.node = "B"
    /\ \E j \in EventsOf(last.trace, "context_update") :
          /\ last.trace[j].frames[1].frame = "LLMMessagesAppendFrame"
          /\ last.trace[j].frames[2].tools = {"info", "cb_a", "boom"}
    /\ tools = {"info", "cb_a", "boom"}

\* C20: A successful activation of a node with respond_immediately = false
\* and post-actions queues no continue signal and runs no post-action; the
\* post-actions are stored as the deferred batch.  The response-produced
\* signal runs a stored batch once, in order, and clears it; with nothing
\* stored it runs nothing, so a later signal does not run the batch again.
C20_DeferredRunsOnce ==
    [][/\ (last'.entered > 0 /\ last'.err = "" /\ last'.step = ""
             /\ ~Pool[last'.node].respond_immediately
             /\ Pool[last'.node].post_actions # <<>>)
            => /\ EventsOf(last'.trace, "continue") = {}
               /\ EventsOf(last'.trace, "post_action") = {}
               /\ fm'.deferred_post_actions =
                     Some([node |-> last'.node, actions |-> Pool[last'.node].post_actions])
       /\ (last'.op = "response_produced" /\ fm.deferred_post_actions # None)
            => LET batch == fm.deferred_post_actions[1]
                   ran == EventsOf(last'.trace, "post_action")
               IN  /\ Cardinality(EventsOf(last'.trace, "deferred_batch")) = 1
                   /\ fm'.deferred_post_actions = None
                   /\ last'.err = ""
                        => /\ Cardinality(ran) = Len(batch.actions)
                           /\ \A i \in DOMAIN batch.actions :
                                 last'.trace[i + 1] = [ev |-> "post_action",
                                                       arg |-> batch.actions[i].type]
       /\ (last'.op = "response_produced" /\ fm.deferred_post_actions = None)
            => /\ last'.trace = <<>>
               /\ fm' = fm]_vars

\* The response-produced signal ran B's deferred post-actions; nothing is
\* stored any more.
C20_Witness ==
    /\ last.op = "response_produced"
    /\ last.had_deferred = "B"
    /\ ~Pool["B"].respond_immediately
    /\ EventsOf(last.trace, "deferred_batch") # {}
    /\ EventsOf(last.trace, "post_action") # {}
    /\ fm.deferred_post_actions = None

\* C21 as claimed: in every state of an initialized manager, activating a
\* node that declares a function with both transition_to and
\* transition_callback fails, and current_node and current_functions are
\* unchanged, also when the function's name is already in current_functions.
C21_BothTransitionsRejected ==
    [][(last'.entered > 0 /\ last'.step # "initialized"
          /\ \E i \in DOMAIN Pool[last'.node].functions :
                /\ Pool[last'.node].functions[i].transition_to # ""
                /\ Pool[last'.node].functions[i].transition_callback # "")
         => /\ last'.err # ""
            /\ fm'.current_node = fm.current_node
            /\ fm'.current_functions = fm.current_functions]_vars

\* C22: When a pre-action or post-action of the node has a type that is not
\* built-in, has no handler registered and carries no handler of its own, the
\* activation fails before any pre-action runs, before any function is
\* registered and before any context update is queued; current_node and
\* current_functions are unchanged.
C22_UnknownActionRejectedEarly ==
    [][(last'.entered > 0 /\ last'.step \notin {"initialized", "validation"}
          /\ LET config == Pool[last'.node]
                 unknown(a) == /\ a.type \notin BuiltinActions
                               /\ a.type \notin DOMAIN fm.action_handlers
                               /\ a.handler = ""
             IN  \/ \E i \in DOMAIN config.pre_actions : unknown(config.pre_actions[i])
                 \/ \E i \in DOMAIN config.post_actions : unknown(config.post_actions[i]))
         => /\ last'.err = "FlowError"
            /\ last'.step = "register_actions"
            /\ last'.trace = <<>>
            /\ llm_functions' = llm_functions
            /\ tools' = tools
            /\ fm'.current_node = fm.current_node
            /\ fm'.current_functions = fm.current_functions]_vars

\* BadAct, whose second pre-action has an unknown type, was rejected while A
\* was current; its first pre-action did not run.
C22_Witness ==
    /\ last.node = "BadAct"
    /\ last.err = "FlowError"
    /\ last.step = "register_actions"
    /\ last.trace = <<>>
    /\ Pool["BadAct"].pre_actions[1].type \in BuiltinActions
    /\ fm.current_node = "A"

\* Every event of the first kind comes before every event of the second kind.
Before(trace, ev1, ev2) ==
    \A i \in EventsOf(trace, ev1), j \in EventsOf(trace, ev2) : i < j

\* C23: In a successful activation the events come in this order: the
\* pre-actions, all of them; then the function registrations; then the
\* context update batch; then the commit of current_node and
\* current_functions; then the continue signal, queued exactly when
\* respond_immediately is true; then the post-actions, run (all of them)
\* exactly when respond_immediately is true.
C23_ActivationOrder ==
    [][(last'.entered > 0 /\ last'.err = "" /\ last'.step = "")
         => LET tr == last'.trace
                config == Pool[last'.node]
            IN  /\ Before(tr, "pre_action", "register_function")
                /\ Before(tr, "pre_action", "context_update")
                /\ Before(tr, "register_function", "context_update")
                /\ Before(tr, "context_update", "commit")
                /\ Before(tr, "commit", "continue")
                /\ Before(tr, "commit", "post_action")
                /\ Before(tr, "continue", "post_action")
                /\ Cardinality(EventsOf(tr, "pre_action")) = Len(config.pre_actions)
                /\ Cardinality(EventsOf(tr, "context_update")) = 1
                /\ Cardinality(EventsOf(tr, "commit")) = 1
                /\ Cardinality(EventsOf(tr, "continue"))
                     = (IF config.respond_immediately THEN 1 ELSE 0)
                /\ Cardinality(EventsOf(tr, "post_action"))
                     = (IF config.respond_immediately THEN Len(config.post_actions) ELSE 0)]_vars

\* A was activated from another node: its pre-action ran, a function was
\* registered, the context was updated, the node committed, the continue
\* signal queued and its post-action run.
C23_Witness ==
    /\ Activation
    /\ last.err = ""
    /\ last.node = "A"
    /\ EventsOf(last.trace, "pre_action") # {}
    /\ EventsOf(last.trace, "register_function") # {}
    /\ EventsOf(last.trace, "context_update") # {}
    /\ EventsOf(last.trace, "continue") # {}
    /\ EventsOf(last.trace, "post_action") # {}
    /\ fm.current_node = "A"


\* C24: If a pre-action fails, the activation aborts with FlowError before
\* any function of the new node is registered with the LLM and before any
\* context update is emitted: the LLM's functions and tool list, current_node
\* and current_functions are unchanged, and the node's post-actions are
\* neither run nor stored as deferred.
C24_PreActionFailureAborts ==
    [][(last'.entered > 0 /\ last'.step = "pre_action")
         => /\ last'.err = "FlowError"
            /\ EventsOf(last'.trace, "register_function") = {}
            /\ EventsOf(last'.trace, "context_update") = {}
            /\ EventsOf(last'.trace, "commit") = {}
            /\ EventsOf(last'.trace, "continue") = {}
            /\ EventsOf(last'.trace, "post_action") = {}
            /\ llm_functions' = llm_functions
            /\ tools' = tools
            /\ fm'.current_node = fm.current_node
            /\ fm'.current_functions = fm.current_functions
            /\ fm'.deferred_post_actions = None]_vars

\* PreFail, whose second pre-action raises and which declares a function and
\* a post-action, was activated while A was current: the first pre-action
\* ran and A is still current.
C24_Witness ==
    /\ Activation
    /\ last.node = "PreFail"
    /\ last.step = "pre_action"
    /\ EventsOf(last.trace, "pre_action") # {}
    /\ Pool["PreFail"].functions # <<>>
    /\ Pool["PreFail"].post_actions # <<>>
    /\ fm.current_node = "A"


\* C25: When the handler of a direct function returns a bare value instead
\* of a pair, transition_func does not raise: it delivers exactly one result
\* for the call, with error status (not the handler's value) and no
\* on_context_updated callback, and the pending transition is what it was
\* before the invocation, whether empty or holding the record of another call
\* of the turn.
C25_BareReturnIsError ==
    [][\A c \in handled' \ handled :
          calls[c].handler = "direct_bare"
             => /\ Len(results') = Len(results) + 1
                /\ results'[Len(results')].call = c
                /\ results'[Len(results')].status = "error"
                /\ results'[Len(results')].run_llm = "default"
                /\ ~results'[Len(results')].on_context_updated
                /\ \A i \in DOMAIN results : results[i].call # c
                /\ fm'._pending_transition = fm._pending_transition
                /\ fm' = fm
                /\ turn'.stored = turn.stored]_vars

\* A direct function returned a bare value while the record of another call
\* of the same turn was pending; that record is still pending and the call's
\* result has error status.
C25_Witness ==
    /\ results # <<>>
    /\ calls[results[Len(results)].call].handler = "direct_bare"
    /\ results[Len(results)].status = "error"
    /\ fm._pending_transition # None
    /\ fm._pending_transition[1].arguments # results[Len(results)].call
    /\ fm._pending_transition[1].arguments \in in_progress


\* The strategy the engine was constructed with.
ConstructedStrategy == IF fm.nodes # {} THEN "RESET_WITH_SUMMARY" ELSE "APPEND"

\* C26: A node's context_strategy takes precedence over the engine-wide one
\* for that activation only: every context update of an activation of a node
\* that carries an override is made under the override, and every context
\* update of an activation of a node without override is made under the
\* strategy the engine was constructed with.
C26_OverrideForOneActivation ==
    [][last'.entered > 0
         => \A i \in EventsOf(last'.trace, "update_config") :
               last'.trace[i].arg =
                  (IF Pool[last'.node].context_strategy # ""
                   THEN Pool[last'.node].context_strategy
                   ELSE ConstructedStrategy)]_vars

\* C28: A summary that is empty or late in one activation does not change the
\* strategy configuration: the engine-wide strategy reads, in every state,
\* what the engine was constructed with.
C28_FallbackLeavesStrategy == fm._context_strategy = ConstructedStrategy


\* The record names, by next_node or transition_to, a node that is not in the
\* static graph.
LookupFails(info, nodes) ==
    \/ info.next_node # "" /\ ~info.inline /\ info.next_node \notin nodes
    \/ info.next_node = "" /\ info.transition_to # "" /\ info.transition_to \notin nodes

\* The activation the observed operation made did not get to its end.
ActivationIncomplete(obs) ==
    /\ obs.entered > 0
    /\ \/ EventsOf(obs.trace, "commit") = {}
       \/ Pool[obs.node].respond_immediately /\ EventsOf(obs.trace, "continue") = {}

\* C27: When on_context_updated takes a pending record and committing it
\* fails (the node it names is not in the static graph, or the activation of
\* the next node raises), the error comes out of
\* _check_and_execute_transition (KeyError from the lookup,
\* FlowTransitionError from an activation on a manager that is not
\* initialized, FlowError from any other failed activation), no record is
\* pending afterwards, and no call of the turn is committed twice.
C27_CommitFailurePropagates ==
    [][(/\ last'.op = "on_context_updated"
        /\ last'.committed # None
        /\ \/ LookupFails(last'.committed[1], fm.nodes)
           \/ ActivationIncomplete(last'))
         => /\ last'.err = (IF LookupFails(last'.committed[1], fm.nodes)
                            THEN "KeyError"
                            ELSE IF fm.initialized THEN "FlowError"
                                 ELSE "FlowTransitionError")
            /\ last'.check = "committed"
            /\ fm'._pending_transition = None
            /\ \A i, j \in DOMAIN turn'.commits :
                  i # j => turn'.commits[i] # turn'.commits[j]]_vars

\* The record taken named a node that the flow does not hold: the lookup
\* raised KeyError out of on_context_updated, and no record is pending.
C27_Witness ==
    /\ last.op = "on_context_updated"
    /\ last.committed # None
    /\ LookupFails(last.committed[1], fm.nodes)
    /\ last.err = "KeyError"
    /\ fm._pending_transition = None


\* C29: After a successful activation of node N, every name N declares is
\* bound, at the LLM, to the function spec N itself declares for it (its
\* handler and its transition target), also when the node that was current
\* before declared the same name differently.
C29_DispatchToCurrentNodeSpec ==
    (Activation /\ last.err = "" /\ fm.current_node # NoNode)
       => \A i \in DOMAIN Pool[fm.current_node].functions :
             LET spec == Pool[fm.current_node].functions[i]
             IN  /\ spec.name \in DOMAIN llm_functions
                 /\ llm_functions[spec.name] = spec


\* C30: A manager that is not initialized has no current node and no current
\* functions, in every state; in particular after an initialize call that
\* failed at any step of activating the initial node.
C30_UninitializedHasNoNode ==
    ~fm.initialized => fm.current_node = NoNode /\ fm.current_functions = {}


\* C31: A committed record that carries more than one transition mechanism
\* uses exactly one, by fixed precedence: the next node the handler returned,
\* else transition_to, else transition_callback.  At most one activation is
\* started per committed record, it is the activation of the node the first
\* mechanism present names, and none is started exactly when that node is
\* looked up in the static graph and is not there.
C31_MechanismPrecedence ==
    [][(last'.op = "on_context_updated" /\ last'.committed # None)
         => LET info == last'.committed[1]
                first == IF info.next_node # "" THEN info.next_node
                         ELSE IF info.transition_to # "" THEN info.transition_to
                              ELSE info.transition_callback
                looked_up == \/ info.next_node # "" /\ ~info.inline
                             \/ info.next_node = "" /\ info.transition_to # ""
            IN  /\ last'.entered <= 1
                /\ turn'.entered = turn.entered + last'.entered
                /\ last'.entered = 1 => last'.node = first
                /\ last'.entered = 0 <=> (looked_up /\ first \notin fm.nodes)
                /\ last'.entered = 0 => last'.err = "KeyError"]_vars

\* Records carrying two mechanisms were committed: the returned next node
\* was activated, not the node transition_to names.
C31_Witness ==
    /\ last.op = "on_context_updated"
    /\ last.committed # None
    /\ last.committed[1].next_node # ""
    /\ last.committed[1].transition_to # ""
    /\ last.committed[1].transition_to # last.committed[1].next_node
    /\ last.entered = 1
    /\ last.node = last.committed[1].next_node
    /\ last.err = ""
    /\ fm.current_node = last.committed[1].next_node

====
